---- MODULE Spec2Model ----
(***************************************************************************)
(* Model of src/main.ts: the Gitpod runner resource analyzer.              *)
(*                                                                         *)
(* One run of the program: the entry point (the `require.main === module`  *)
(* block or the exported generateResourceReport), the two remote calls,    *)
(* the per-runner derivations started by Promise.all, the report builder   *)
(* and the file write.                                                     *)
(*                                                                         *)
(* Conventions                                                             *)
(*  - A JavaScript string field that is undefined or "" is the TLA+ string *)
(*    "": both are falsy and the code only ever tests them with `||`, `!`  *)
(*    and `===` against a value of the same field.                         *)
(*  - An object field that may be undefined is None (<<>>) or Some(x).     *)
(*  - created_at.seconds is a string of characters, kept as a sequence of  *)
(*    one-character strings so that Number() really parses it.             *)
(*  - Times are epoch seconds.  The code computes                          *)
(*    floor((now_ms - seconds*1000) / (1000*60*60)); with whole seconds on *)
(*    the right and 0 <= now_ms - 1000*floor(now_ms/1000) < 1000 this is   *)
(*    floor((now_s - seconds) / (60*60)), which is what is modelled.       *)
(*  - Money inside estimateCost is counted in 1/10000 dollar (the rate     *)
(*    table has four decimals); toFixed(2) brings it to cents, and every   *)
(*    stored cost is a whole number of cents.                              *)
(***************************************************************************)
EXTENDS Integers, Sequences, FiniteSets, TLC

VARIABLES
  entry,            \* "cli": run directly; "module": exported function called
  pat,              \* GITPOD_PAT / the pat argument ("" when missing)
  organizationId,   \* GITPOD_ORG_ID / the organizationId argument
  apiRunners,       \* response.data.runners the service would return
  apiEnvironments,  \* response.data.environments the service would return
  pc,               \* position of the run
  calls,            \* remote calls issued so far, in order
  failedCall,       \* the step that threw ("" when none did)
  error,            \* the error the run's promise rejected with ("" = none)
  runners,          \* const runners      (main.ts:284)
  environments,     \* const environments (main.ts:287)
  results,          \* Promise.all's result slots, one per runner
  now,              \* the wall clock, epoch seconds
  ticks,            \* how often the clock advanced during the analysis
  report,           \* const report (main.ts:293)
  file,             \* contents written to outputPath, one entry per write
  reordered,        \* history: a derivation completed before an earlier runner's
  exitCode          \* process exit code, None while the process runs

vars == <<entry, pat, organizationId, apiRunners, apiEnvironments, pc, calls,
          failedCall, error, runners, environments, results, now, ticks,
          report, file, reordered, exitCode>>

----------------------------------------------------------------------------
(* Bounds *)

MaxRunners == 2
MaxEnvs == 2
MaxTicks == 1
NowStart == 2520000

----------------------------------------------------------------------------
(* Optional values and JavaScript numbers *)

None == <<>>
Some(x) == <<x>>

NaN == [nan |-> TRUE, v |-> 0]
Num(n) == [nan |-> FALSE, v |-> n]

\* x || 0 for a number x
OrZero(x) == IF x.nan \/ x.v = 0 THEN 0 ELSE x.v

\* a || b for strings
OrStr(a, b) == IF a # "" THEN a ELSE b

SeqsUpTo(S, n) == UNION {[1..k -> S] : k \in 0..n}

----------------------------------------------------------------------------
(* created_at.seconds: a decimal string, and Number() of it *)

DigitChars == <<"0", "1", "2", "3", "4", "5", "6", "7", "8", "9">>

IsDigit(c) == \E d \in 1..10 : DigitChars[d] = c

DigitValue(c) == (CHOOSE d \in 1..10 : DigitChars[d] = c) - 1

RECURSIVE DecimalString(_)
DecimalString(n) ==
  IF n < 10 THEN <<DigitChars[n + 1]>>
  ELSE Append(DecimalString(n \div 10), DigitChars[(n % 10) + 1])

RECURSIVE DigitsValue(_)
DigitsValue(s) ==
  IF s = <<>> THEN 0
  ELSE DigitsValue(SubSeq(s, 1, Len(s) - 1)) * 10 + DigitValue(s[Len(s)])

\* Number(str): the value of a decimal string, 0 for "", NaN otherwise
Number(s) ==
  IF \A k \in 1..Len(s) : IsDigit(s[k]) THEN Num(DigitsValue(s)) ELSE NaN

SecondsPerHour == 60 * 60

calculateUptime(createdAt, clock) ==
  IF createdAt = None \/ createdAt[1].seconds = <<>> THEN Num(0)
  ELSE LET created == Number(createdAt[1].seconds)
       IN  IF created.nan THEN NaN
           ELSE Num((clock - created.v) \div SecondsPerHour)

----------------------------------------------------------------------------
(* status.system_details: a JSON document, and JSON.parse of it *)

InstanceTypeNames ==
  {"t3.medium", "t3.large", "t3.xlarge", "m5.large", "constructor"}

InstanceTypeDoc(t) == "{\"instanceType\":\"" \o t \o "\"}"

EmptyObject == [json |-> "object", instanceType |-> "", raw |-> ""]

\* JSON.parse on the documents of the model: [ok |-> FALSE] is a SyntaxError
JSONparse(text) ==
  IF text = "null" THEN [ok |-> TRUE, value |-> [EmptyObject EXCEPT !.json = "null"]]
  ELSE IF text = "{}" THEN [ok |-> TRUE, value |-> EmptyObject]
  ELSE IF \E t \in InstanceTypeNames : text = InstanceTypeDoc(t)
       THEN [ok |-> TRUE,
             value |-> [EmptyObject EXCEPT !.instanceType =
                          CHOOSE t \in InstanceTypeNames : text = InstanceTypeDoc(t)]]
  ELSE [ok |-> FALSE, value |-> EmptyObject]

parseSystemDetails(details) ==
  IF details = "" THEN EmptyObject
  ELSE LET parsed == JSONparse(details)
       IN  IF parsed.ok THEN parsed.value
           ELSE [EmptyObject EXCEPT !.raw = details]

----------------------------------------------------------------------------
(* Region *)

\* runner.status?.f : "" when status is undefined
StatusField(runner, f) ==
  IF runner.status = None THEN "" ELSE runner.status[1][f]

\* runner.spec?.configuration?.region
ConfiguredRegion(runner) ==
  IF runner.spec = None THEN ""
  ELSE IF runner.spec[1].configuration = None THEN ""
  ELSE runner.spec[1].configuration[1].region

\* mutant: the configured region is preferred to the reported one
getRegion_ConfiguredFirst(runner) ==
  OrStr(ConfiguredRegion(runner), OrStr(StatusField(runner, "region"), "unknown"))

getRegion(runner) ==
  OrStr(StatusField(runner, "region"), OrStr(ConfiguredRegion(runner), "unknown"))

----------------------------------------------------------------------------
(* Cost *)

\* own properties of the hourlyRates object literal, in 1/10000 dollar per hour
hourlyRates ==
  ("t3.medium" :> 416) @@ ("t3.large" :> 832) @@ ("t3.xlarge" :> 1664)
  @@ ("default" :> 416)

\* properties every object literal inherits from Object.prototype
ObjectPrototypeKeys ==
  {"constructor", "toString", "valueOf", "hasOwnProperty", "__proto__"}

\* hourlyRates[instanceType] || hourlyRates.default
\* An inherited property is a function or an object: truthy, and NaN once
\* it is multiplied.
hourlyRateOf(instanceType) ==
  IF instanceType \in DOMAIN hourlyRates THEN Num(hourlyRates[instanceType])
  ELSE IF instanceType \in ObjectPrototypeKeys THEN NaN
  ELSE Num(hourlyRates["default"])

\* 0.1 dollar per environment and hour, in 1/10000 dollar
EnvironmentHourlyRate == 1000

\* Number(x.toFixed(2)) in cents, x in 1/10000 dollar: toFixed rounds the
\* magnitude to the nearest cent and keeps the sign.
ToFixed2(x) ==
  IF x >= 0 THEN (x + 50) \div 100 ELSE 0 - ((0 - x + 50) \div 100)

\* mutant: the kind test is dropped, every runner is metered
estimateCost_NoLocalTest(metrics) ==
  LET instanceType == OrStr(metrics.systemDetails.instanceType, "default")
      hourlyRate == hourlyRateOf(instanceType)
      cost == metrics.uptime * hourlyRate.v
      environmentCost ==
        Len(metrics.environments) * EnvironmentHourlyRate * metrics.uptime
  IN  IF hourlyRate.nan THEN 0
      ELSE ToFixed2(cost + environmentCost)

estimateCost(metrics) ==
  IF metrics.kind = "RUNNER_KIND_LOCAL" THEN 0
  ELSE LET instanceType == OrStr(metrics.systemDetails.instanceType, "default")
           hourlyRate == hourlyRateOf(instanceType)
           cost == metrics.uptime * hourlyRate.v
           environmentCost ==
             Len(metrics.environments) * EnvironmentHourlyRate * metrics.uptime
       IN  IF hourlyRate.nan THEN 0
           ELSE ToFixed2(cost + environmentCost)

----------------------------------------------------------------------------
(* Metrics derivation *)

\* mutant: the environments are not filtered by runner
analyzeRunner_Unfiltered(runner, allEnvironments, clock) ==
  LET uptime == calculateUptime(runner.created_at, clock)
      systemDetails == parseSystemDetails(StatusField(runner, "system_details"))
      metrics ==
        [runnerId |-> OrStr(runner.runner_id, "unknown"),
         name |-> OrStr(runner.name, "Unnamed Runner"),
         kind |-> OrStr(runner.kind, "unknown"),
         region |-> getRegion(runner),
         uptime |-> OrZero(uptime),
         phase |-> OrStr(StatusField(runner, "phase"), "unknown"),
         systemDetails |-> systemDetails,
         environments |-> allEnvironments]
  IN  [runnerId |-> metrics.runnerId,
       name |-> metrics.name,
       kind |-> metrics.kind,
       region |-> metrics.region,
       uptime |-> metrics.uptime,
       phase |-> metrics.phase,
       systemDetails |-> metrics.systemDetails,
       environments |-> metrics.environments,
       estimatedCost |-> estimateCost(metrics)]

analyzeRunner(runner, allEnvironments, clock) ==
  LET uptime == calculateUptime(runner.created_at, clock)
      systemDetails == parseSystemDetails(StatusField(runner, "system_details"))
      runnerEnvironments ==
        SelectSeq(allEnvironments, LAMBDA env : env.runner_id = runner.runner_id)
      metrics ==
        [runnerId |-> OrStr(runner.runner_id, "unknown"),
         name |-> OrStr(runner.name, "Unnamed Runner"),
         kind |-> OrStr(runner.kind, "unknown"),
         region |-> getRegion(runner),
         uptime |-> OrZero(uptime),
         phase |-> OrStr(StatusField(runner, "phase"), "unknown"),
         systemDetails |-> systemDetails,
         environments |-> runnerEnvironments]
  IN  [runnerId |-> metrics.runnerId,
       name |-> metrics.name,
       kind |-> metrics.kind,
       region |-> metrics.region,
       uptime |-> metrics.uptime,
       phase |-> metrics.phase,
       systemDetails |-> metrics.systemDetails,
       environments |-> metrics.environments,
       estimatedCost |-> estimateCost(metrics)]

----------------------------------------------------------------------------
(* Report builder.  The report is kept as a record of its sections: the    *)
(* Markdown text is a rendering of exactly these values, in this order.    *)

RECURSIVE SumCost(_)
SumCost(metrics) ==
  IF metrics = <<>> THEN 0
  ELSE metrics[1].estimatedCost + SumCost(Tail(metrics))

RECURSIVE SumEnvironments(_)
SumEnvironments(metrics) ==
  IF metrics = <<>> THEN 0
  ELSE Len(metrics[1].environments) + SumEnvironments(Tail(metrics))

IsRemote(m) == m.kind = "RUNNER_KIND_REMOTE"
IsLocal(m) == m.kind = "RUNNER_KIND_LOCAL"

\* one line of the Runner Details table (main.ts:224)
DetailsRow(m) ==
  [name |-> m.name, kind |-> m.kind, region |-> m.region, phase |-> m.phase,
   environments |-> Len(m.environments), uptime |-> m.uptime,
   cost |-> m.estimatedCost]

\* one line of an Environment Distribution table (main.ts:235-237)
EnvironmentRow(env) ==
  [id |-> OrStr(env.environment_id, "N/A"),
   url |-> OrStr(env.context_url, "N/A"),
   status |-> IF env.status = None THEN "N/A" ELSE OrStr(env.status[1].phase, "N/A")]

DistributionSection(m) ==
  [name |-> m.name, runnerId |-> m.runnerId, total |-> Len(m.environments),
   rows |-> [k \in 1..Len(m.environments) |-> EnvironmentRow(m.environments[k])]]

SystemSection(m) ==
  [name |-> m.name, runnerId |-> m.runnerId, kind |-> m.kind,
   region |-> m.region, phase |-> m.phase,
   environments |-> Len(m.environments), uptime |-> m.uptime,
   systemDetails |-> m.systemDetails]

IsInactive(m) == m.phase = "RUNNER_PHASE_INACTIVE"
IsHighUptime(m) == m.uptime > 168
IsEmpty(m) == Len(m.environments) = 0 /\ m.uptime > 24
IsHighCost(m) == m.estimatedCost > 100 * 100

Bullet(rule, matching) ==
  IF Len(matching) > 0 THEN <<[rule |-> rule, count |-> Len(matching)]>>
  ELSE <<>>

\* mutant: the rules form an else-if chain, a runner counts for the first
\* rule it matches only
Recommendations_FirstMatchOnly(metrics) ==
  LET inactiveRunners == SelectSeq(metrics, IsInactive)
      highUptimeRunners ==
        SelectSeq(metrics, LAMBDA m : ~IsInactive(m) /\ IsHighUptime(m))
      emptyRunners ==
        SelectSeq(metrics, LAMBDA m : ~IsInactive(m) /\ ~IsHighUptime(m) /\ IsEmpty(m))
      highCostRunners ==
        SelectSeq(metrics, LAMBDA m : ~IsInactive(m) /\ ~IsHighUptime(m)
                                      /\ ~IsEmpty(m) /\ IsHighCost(m))
  IN  Bullet("inactive", inactiveRunners)
      \o Bullet("highUptime", highUptimeRunners)
      \o Bullet("empty", emptyRunners)
      \o Bullet("highCost", highCostRunners)

Recommendations(metrics) ==
  LET inactiveRunners == SelectSeq(metrics, IsInactive)
      highUptimeRunners == SelectSeq(metrics, IsHighUptime)
      emptyRunners == SelectSeq(metrics, IsEmpty)
      highCostRunners == SelectSeq(metrics, IsHighCost)
  IN  Bullet("inactive", inactiveRunners)
      \o Bullet("highUptime", highUptimeRunners)
      \o Bullet("empty", emptyRunners)
      \o Bullet("highCost", highCostRunners)

generateMarkdownReport(metrics, timestamp) ==
  LET totalCost == SumCost(metrics)
      remoteCount == Len(SelectSeq(metrics, IsRemote))
      localCount == Len(SelectSeq(metrics, IsLocal))
      totalEnvironments == SumEnvironments(metrics)
      withEnvironments ==
        SelectSeq(metrics, LAMBDA m : Len(m.environments) > 0)
  IN  [timestamp |-> timestamp,
       totalRunners |-> Len(metrics),
       remoteRunners |-> remoteCount,
       localRunners |-> localCount,
       totalEnvironments |-> totalEnvironments,
       totalCost |-> totalCost,
       remoteCost |-> SumCost(SelectSeq(metrics, IsRemote)),
       environmentCostPerHour |-> ToFixed2(totalEnvironments * EnvironmentHourlyRate),
       details |-> [k \in 1..Len(metrics) |-> DetailsRow(metrics[k])],
       distribution |->
         [k \in 1..Len(withEnvironments) |-> DistributionSection(withEnvironments[k])],
       system |-> [k \in 1..Len(metrics) |-> SystemSection(metrics[k])],
       recommendations |-> Recommendations(metrics)]

----------------------------------------------------------------------------
(* What the service can answer *)

Runner(id, name, kind, created, spec, status) ==
  [runner_id |-> id, name |-> name, kind |-> kind, created_at |-> created,
   spec |-> spec, status |-> status]

Status(details, phase, region) ==
  Some([system_details |-> details, phase |-> phase, region |-> region])

Configured(region) == Some([configuration |-> Some([region |-> region])])

CreatedAt(seconds) == Some([seconds |-> seconds])

Hours(h) == h * SecondsPerHour

Environment(k, runnerId) ==
  [environment_id |-> "env-" \o ToString(k), context_url |-> "",
   runner_id |-> runnerId,
   status |-> Some([phase |-> "ENVIRONMENT_PHASE_RUNNING"])]

EnvironmentRunnerIds == {"r1", "r2", "r9"}

EnvironmentLists ==
  {[k \in 1..Len(ids) |-> Environment(k, ids[k])] :
     ids \in SeqsUpTo(EnvironmentRunnerIds, MaxEnvs)}

NameOf == ("r1" :> "alpha") @@ ("r2" :> "")

\* The runners of the whole-run specification: three runners under two
\* runner ids, so that a list may hold the same id twice.
Profiles ==
  { \* old, inactive, largest instance: over every threshold when empty
    [id |-> "r1", kind |-> "RUNNER_KIND_REMOTE",
     created |-> CreatedAt(DecimalString(0)),
     status |-> Status(InstanceTypeDoc("t3.xlarge"), "RUNNER_PHASE_INACTIVE", "us-east")],
    \* a local runner, 30 hours old, no status at all
    [id |-> "r2", kind |-> "RUNNER_KIND_LOCAL",
     created |-> CreatedAt(DecimalString(NowStart - Hours(30))),
     status |-> None],
    \* the runner of the end-to-end scenario: t3.large, 10 hours
    [id |-> "r1", kind |-> "RUNNER_KIND_REMOTE",
     created |-> CreatedAt(DecimalString(NowStart - Hours(10))),
     status |-> Status(InstanceTypeDoc("t3.large"), "RUNNER_PHASE_ACTIVE", "")] }

RunRunners ==
  {Runner(p.id, NameOf[p.id], p.kind, p.created, Configured("eu-west"), p.status) :
     p \in Profiles}

RunRunnerLists == SeqsUpTo(RunRunners, MaxRunners)

\* The runners of the cost specification: every kind, timestamp and
\* system-details document, one runner per run.
Kinds == {"RUNNER_KIND_LOCAL", "RUNNER_KIND_REMOTE", "RUNNER_KIND_UNSPECIFIED", ""}

CreatedAts ==
  {None, CreatedAt(<<>>), CreatedAt(<<"a", "b", "c">>)}
  \cup {CreatedAt(DecimalString(s)) :
          s \in {0, NowStart - Hours(200), NowStart - Hours(10) + 1, NowStart,
                 NowStart + 1, NowStart + Hours(3)}}

SystemDetailsDocs ==
  {"", "{not json", "null", "{}"} \cup {InstanceTypeDoc(t) : t \in InstanceTypeNames}

CostRunners ==
  {Runner("r1", "alpha", k, c, Configured("eu-west"),
          Status(d, "RUNNER_PHASE_ACTIVE", "us-east")) :
     k \in Kinds, c \in CreatedAts, d \in SystemDetailsDocs}
  \cup {Runner("r1", "alpha", k, c, Configured("eu-west"), None) :
          k \in Kinds, c \in CreatedAts}

\* The runners of the region specification: every way the two regions can
\* be present, empty or missing.
Statuses ==
  {None} \cup {Status("", "RUNNER_PHASE_ACTIVE", r) : r \in {"", "us-east", "eu-west"}}

Specs ==
  {None, Some([configuration |-> None])}
  \cup {Configured(r) : r \in {"", "us-east", "eu-west"}}

RegionRunners ==
  {Runner("r1", "alpha", "RUNNER_KIND_REMOTE", None, sp, st) :
     sp \in Specs, st \in Statuses}

Singletons(S) == {<<x>> : x \in S}

----------------------------------------------------------------------------
(* The run *)

InitWith(runnerLists, environmentLists) ==
  /\ entry \in {"cli", "module"}
  /\ pat \in {"", "pat"}
  /\ organizationId \in {"", "org"}
  /\ apiRunners \in {None} \cup {Some(l) : l \in runnerLists}
  /\ apiEnvironments \in {None} \cup {Some(l) : l \in environmentLists}
  /\ pc = "start"
  /\ calls = <<>>
  /\ failedCall = ""
  /\ error = ""
  /\ runners = <<>>
  /\ environments = <<>>
  /\ results = <<>>
  /\ now = NowStart
  /\ ticks = 0
  /\ report = None
  /\ file = <<>>
  /\ reordered = FALSE
  /\ exitCode = None

Init == InitWith(RunRunnerLists, EnvironmentLists)
InitCost == InitWith(Singletons(CostRunners), EnvironmentLists)
InitRegion == InitWith(Singletons(RegionRunners), EnvironmentLists)

\* main.ts:315-318
MainMissingPat ==
  /\ pc = "start" /\ entry = "cli" /\ pat = ""
  /\ exitCode' = Some(1)
  /\ pc' = "exited"
  /\ UNCHANGED <<entry, pat, organizationId, apiRunners, apiEnvironments, calls,
                 failedCall, error, runners, environments, results, now, ticks,
                 report, file, reordered>>

\* main.ts:320-323
MainMissingOrg ==
  /\ pc = "start" /\ entry = "cli" /\ pat # "" /\ organizationId = ""
  /\ exitCode' = Some(1)
  /\ pc' = "exited"
  /\ UNCHANGED <<entry, pat, organizationId, apiRunners, apiEnvironments, calls,
                 failedCall, error, runners, environments, results, now, ticks,
                 report, file, reordered>>

\* main.ts:325: both variables set, the report run starts
MainRun ==
  /\ pc = "start" /\ entry = "cli" /\ pat # "" /\ organizationId # ""
  /\ pc' = "listRunners"
  /\ UNCHANGED <<entry, pat, organizationId, apiRunners, apiEnvironments, calls,
                 failedCall, error, runners, environments, results, now, ticks,
                 report, file, exitCode, reordered>>

\* main.ts:305-308: the exported function, called with whatever it is given
ExportedCall ==
  /\ pc = "start" /\ entry = "module"
  /\ pc' = "listRunners"
  /\ UNCHANGED <<entry, pat, organizationId, apiRunners, apiEnvironments, calls,
                 failedCall, error, runners, environments, results, now, ticks,
                 report, file, exitCode, reordered>>

\* response.data.x || []
OrEmpty(field) == IF field = None THEN <<>> ELSE field[1]

ListRunnersOk ==
  /\ pc = "listRunners"
  /\ calls' = Append(calls, "ListRunners")
  /\ runners' = OrEmpty(apiRunners)
  /\ pc' = "listEnvironments"
  /\ UNCHANGED <<entry, pat, organizationId, apiRunners, apiEnvironments,
                 failedCall, error, environments, results, now, ticks, report,
                 file, exitCode, reordered>>

\* the call throws: listRunners rethrows, generateResourceReport rethrows
ListRunnersFail ==
  /\ pc = "listRunners"
  /\ calls' = Append(calls, "ListRunners")
  /\ failedCall' = "ListRunners"
  /\ error' = "ListRunners"
  /\ pc' = "rejected"
  /\ UNCHANGED <<entry, pat, organizationId, apiRunners, apiEnvironments,
                 runners, environments, results, now, ticks, report, file,
                 exitCode, reordered>>

\* The environments arrive and runners.map starts one derivation per runner.
ListEnvironmentsOk ==
  /\ pc = "listEnvironments"
  /\ calls' = Append(calls, "ListEnvironments")
  /\ environments' = OrEmpty(apiEnvironments)
  /\ results' = [k \in 1..Len(runners) |-> None]
  /\ pc' = "analyze"
  /\ UNCHANGED <<entry, pat, organizationId, apiRunners, apiEnvironments,
                 failedCall, error, runners, now, ticks, report, file,
                 exitCode, reordered>>

\* mutant: the failed call is logged and answered with an empty list
ListEnvironmentsFail_Swallowed ==
  /\ pc = "listEnvironments"
  /\ calls' = Append(calls, "ListEnvironments")
  /\ failedCall' = "ListEnvironments"
  /\ environments' = <<>>
  /\ results' = [k \in 1..Len(runners) |-> None]
  /\ pc' = "analyze"
  /\ UNCHANGED <<entry, pat, organizationId, apiRunners, apiEnvironments,
                 error, runners, now, ticks, report, file, exitCode, reordered>>

ListEnvironmentsFail ==
  /\ pc = "listEnvironments"
  /\ calls' = Append(calls, "ListEnvironments")
  /\ failedCall' = "ListEnvironments"
  /\ error' = "ListEnvironments"
  /\ pc' = "rejected"
  /\ UNCHANGED <<entry, pat, organizationId, apiRunners, apiEnvironments,
                 runners, environments, results, now, ticks, report, file,
                 exitCode, reordered>>

\* The derivation of runner i completes; Promise.all keeps its value in
\* slot i, whichever derivations completed before it.
AnalyzeRunner(i) ==
  /\ pc = "analyze"
  /\ i \in 1..Len(runners)
  /\ results[i] = None
  /\ results' = [results EXCEPT ![i] = Some(analyzeRunner(runners[i], environments, now))]
  /\ reordered' = (reordered \/ \E k \in 1..(i - 1) : results[k] = None)
  /\ UNCHANGED <<entry, pat, organizationId, apiRunners, apiEnvironments, pc,
                 calls, failedCall, error, runners, environments, now, ticks,
                 report, file, exitCode>>

\* the clock moves on while the derivations run
TickSeconds == SecondsPerHour \div 2

Tick ==
  /\ pc = "analyze"
  /\ ticks < MaxTicks
  /\ now' = now + TickSeconds
  /\ ticks' = ticks + 1
  /\ UNCHANGED <<entry, pat, organizationId, apiRunners, apiEnvironments, pc,
                 calls, failedCall, error, runners, environments, results,
                 report, file, exitCode, reordered>>

AllSettled == \A k \in 1..Len(results) : results[k] # None

\* mutant: the records are handed over last runner first
Metrics_Reversed == [k \in 1..Len(results) |-> results[Len(results) + 1 - k][1]]

Metrics == [k \in 1..Len(results) |-> results[k][1]]

\* Promise.all resolved: main.ts:293
GenerateReport ==
  /\ pc = "analyze"
  /\ AllSettled
  /\ report' = Some(generateMarkdownReport(Metrics, now))
  /\ pc' = "write"
  /\ UNCHANGED <<entry, pat, organizationId, apiRunners, apiEnvironments, calls,
                 failedCall, error, runners, environments, results, now, ticks,
                 file, exitCode, reordered>>

\* main.ts:295
WriteReportOk ==
  /\ pc = "write"
  /\ file' = Append(file, report[1])
  /\ pc' = "resolved"
  /\ UNCHANGED <<entry, pat, organizationId, apiRunners, apiEnvironments, calls,
                 failedCall, error, runners, environments, results, now, ticks,
                 report, exitCode, reordered>>

\* fs.writeFileSync throws before anything is written (the path cannot be opened)
WriteReportFail ==
  /\ pc = "write"
  /\ failedCall' = "writeFileSync"
  /\ error' = "writeFileSync"
  /\ pc' = "rejected"
  /\ UNCHANGED <<entry, pat, organizationId, apiRunners, apiEnvironments, calls,
                 runners, environments, results, now, ticks, report, file,
                 exitCode, reordered>>

\* main.ts:326: .then, and the process ends with status 0
MainThen ==
  /\ pc = "resolved" /\ entry = "cli"
  /\ exitCode' = Some(0)
  /\ pc' = "exited"
  /\ UNCHANGED <<entry, pat, organizationId, apiRunners, apiEnvironments, calls,
                 failedCall, error, runners, environments, results, now, ticks,
                 report, file, reordered>>

\* main.ts:327-330: .catch, process.exit(1)
MainCatch ==
  /\ pc = "rejected" /\ entry = "cli"
  /\ exitCode' = Some(1)
  /\ pc' = "exited"
  /\ UNCHANGED <<entry, pat, organizationId, apiRunners, apiEnvironments, calls,
                 failedCall, error, runners, environments, results, now, ticks,
                 report, file, reordered>>

Next ==
  \/ MainMissingPat
  \/ MainMissingOrg
  \/ MainRun
  \/ ExportedCall
  \/ ListRunnersOk
  \/ ListRunnersFail
  \/ ListEnvironmentsOk
  \/ ListEnvironmentsFail
  \/ \E i \in 1..MaxRunners : AnalyzeRunner(i)
  \/ Tick
  \/ GenerateReport
  \/ WriteReportOk
  \/ WriteReportFail
  \/ MainThen
  \/ MainCatch

Spec == Init /\ [][Next]_vars
SpecCost == InitCost /\ [][Next]_vars
SpecRegion == InitRegion /\ [][Next]_vars

----------------------------------------------------------------------------
(* Vocabulary of the properties *)

\* slot k holds the metrics record of a completed derivation
Settled(k) == k \in 1..Len(results) /\ results[k] # None

\* the report builder has run, on the metrics of every runner
ReportBuilt == report # None

\* the clock readings a derivation of this run can have used
ClockReadings == {NowStart + t * TickSeconds : t \in 0..ticks}

\* the instance type named by the runner's system details, "" when the
\* details are empty, unparseable or name none
NamedInstanceType(runner) ==
  IF runner.status = None THEN ""
  ELSE LET d == runner.status[1].system_details
       IN  IF \E t \in InstanceTypeNames : d = InstanceTypeDoc(t)
           THEN CHOOSE t \in InstanceTypeNames : d = InstanceTypeDoc(t)
           ELSE ""

\* the creation time in epoch seconds, None when created_at or its seconds
\* are missing or are no number
CreatedSeconds(runner) ==
  IF runner.created_at = None THEN None
  ELSE LET s == runner.created_at[1].seconds
       IN  IF s = <<>> \/ \E k \in 1..Len(s) : ~IsDigit(s[k]) THEN None
           ELSE Some(DigitsValue(s))

----------------------------------------------------------------------------
(* C1 *)

\* C1: every metrics record carries an estimated cost that is a number
\* >= 0, whatever the runner's kind, timestamp (also one later than the
\* clock), system details and environments.
C1_CostNeverNegative ==
  \A k \in 1..Len(results) :
    Settled(k) => results[k][1].estimatedCost >= 0

----------------------------------------------------------------------------
(* C2 *)

\* C2: a runner of kind RUNNER_KIND_LOCAL has estimated cost exactly 0,
\* for every uptime, number of environments and system details.
C2_LocalCostZero ==
  \A k \in 1..Len(results) :
    (Settled(k) /\ runners[k].kind = "RUNNER_KIND_LOCAL")
      => results[k][1].estimatedCost = 0

\* a local runner that has been up for hours on a priced instance type and
\* hosts environments
C2_Witness ==
  \E k \in 1..Len(results) :
    /\ Settled(k)
    /\ runners[k].kind = "RUNNER_KIND_LOCAL"
    /\ results[k][1].uptime >= 200
    /\ Len(results[k][1].environments) = MaxEnvs
    /\ NamedInstanceType(runners[k]) = "t3.xlarge"
    /\ results[k][1].estimatedCost = 0

----------------------------------------------------------------------------
(* C3 *)

\* environment e of the input is in the list of metrics record k
Attached(e, k) ==
  \E j \in 1..Len(results[k][1].environments) :
    results[k][1].environments[j] = environments[e]

Occurrences(e, k) ==
  Cardinality({j \in 1..Len(results[k][1].environments) :
                 results[k][1].environments[j] = environments[e]})

ExactPartition ==
  /\ \A e \in 1..Len(environments) :
       /\ (\E k \in 1..Len(results) : Attached(e, k))
            <=> (\E k \in 1..Len(runners) :
                   environments[e].runner_id = runners[k].runner_id)
       /\ \A k \in 1..Len(results) :
            Attached(e, k) =>
              /\ runners[k].runner_id = environments[e].runner_id
              /\ Occurrences(e, k) = 1
              /\ \A l \in 1..Len(results) : Attached(e, l) => l = k
  /\ \A k \in 1..Len(results) :
       \A j \in 1..Len(results[k][1].environments) :
         \E e \in 1..Len(environments) :
           results[k][1].environments[j] = environments[e]

DistinctRunnerIds ==
  \A k, l \in 1..Len(runners) :
    runners[k].runner_id = runners[l].runner_id => k = l

\* C3 as stated: after a run over any runners and environments the
\* per-runner environment lists are an exact, disjoint partition of the
\* environments whose runner_id is that of some runner.
C3_ExactPartitionAnyRunners == ReportBuilt => ExactPartition

\* C3 as amended: the same, for runners whose runner_ids are pairwise
\* distinct.
C3_ExactPartitionDistinctIds ==
  (ReportBuilt /\ DistinctRunnerIds) => ExactPartition

\* two runners with different ids, one environment attached to each of
\* them or dropped as an orphan
C3_Witness ==
  /\ ReportBuilt
  /\ DistinctRunnerIds
  /\ Len(runners) = MaxRunners
  /\ \E e \in 1..Len(environments) :
       \A k \in 1..Len(runners) : environments[e].runner_id # runners[k].runner_id
  /\ \E e \in 1..Len(environments) : \E k \in 1..Len(results) : Attached(e, k)

----------------------------------------------------------------------------
(* C4 *)

Count(seq, x) == Cardinality({k \in 1..Len(seq) : seq[k] = x})

\* C4: a failed ListRunners or ListEnvironments call ends the run with
\* that error, is not retried and leaves the output file unwritten; the
\* file is written at most once, after both calls succeeded and every
\* runner's metrics were derived, with the complete report.
C4_FailedCallAbortsRun ==
  /\ Count(calls, "ListRunners") <= 1
  /\ Count(calls, "ListEnvironments") <= 1
  /\ failedCall \in {"ListRunners", "ListEnvironments"} =>
       /\ pc \in {"rejected", "exited"}
       /\ error = failedCall
       /\ calls[Len(calls)] = failedCall
       /\ file = <<>>
       /\ report = None
       /\ pc = "exited" => exitCode = Some(1)
  /\ file # <<>> =>
       /\ Len(file) = 1
       /\ calls = <<"ListRunners", "ListEnvironments">>
       /\ failedCall = ""
       /\ Len(results) = Len(runners)
       /\ \A k \in 1..Len(results) : Settled(k)
       /\ file[1].totalRunners = Len(runners)
       /\ Len(file[1].details) = Len(runners)
       /\ Len(file[1].system) = Len(runners)
       /\ file[1].totalEnvironments =
            Cardinality({ek \in (1..Len(environments)) \X (1..Len(runners)) :
                           environments[ek[1]].runner_id = runners[ek[2]].runner_id})
       /\ file[1] = report[1]

\* the runners were fetched, ListEnvironments failed, the process exited
C4_Witness ==
  /\ failedCall = "ListEnvironments"
  /\ Len(runners) = MaxRunners
  /\ pc = "exited"
  /\ exitCode = Some(1)
  /\ file = <<>>

----------------------------------------------------------------------------
(* C5 *)

\* C5: with the credential or the organization id missing or empty the
\* program fails at once with a non-zero exit and issues no remote call,
\* on every path that starts a report run, the exported function included.
C5_MissingConfigNoRemoteCall ==
  (pat = "" \/ organizationId = "") =>
    /\ calls = <<>>
    /\ pc \notin {"write", "resolved"}
    /\ pc = "exited" => exitCode = Some(1)

----------------------------------------------------------------------------
(* C6 *)

\* C6: the uptime of a metrics record is a whole number of hours >= 0:
\* floor((now - createdAt) / 1 hour) when createdAt is present, 0 when it
\* or its seconds are missing, never negative, also for a createdAt later
\* than the clock.
C6_UptimeNeverNegative ==
  \A k \in 1..Len(results) :
    Settled(k) =>
      /\ results[k][1].uptime >= 0
      /\ IF CreatedSeconds(runners[k]) = None
         THEN results[k][1].uptime = 0
         ELSE \E clock \in ClockReadings :
                results[k][1].uptime =
                  (clock - CreatedSeconds(runners[k])[1]) \div (60 * 60)

----------------------------------------------------------------------------
(* C7 *)

Rules == {"inactive", "highUptime", "empty", "highCost"}

\* the rule as the report's reader understands it, on one metrics record
Matches(rule, m) ==
  CASE rule = "inactive" -> m.phase = "RUNNER_PHASE_INACTIVE"
    [] rule = "highUptime" -> m.uptime > 168
    [] rule = "empty" -> m.environments = <<>> /\ m.uptime > 24
    [] rule = "highCost" -> m.estimatedCost > 10000

Matching(rule) == {k \in 1..Len(results) : Matches(rule, results[k][1])}

\* C7: a recommendation is emitted for a rule exactly when a runner
\* matches it, with the number of runners matching that rule alone; a
\* runner matching all four rules is counted in all four.
C7_RulesIndependent ==
  ReportBuilt =>
    LET bullets == report[1].recommendations
    IN  \A rule \in Rules :
          /\ Cardinality({j \in 1..Len(bullets) : bullets[j].rule = rule})
               = IF Matching(rule) = {} THEN 0 ELSE 1
          /\ \A j \in 1..Len(bullets) :
               bullets[j].rule = rule =>
                 bullets[j].count = Cardinality(Matching(rule))

\* one runner matches all four rules, a second one only some of them
C7_Witness ==
  /\ ReportBuilt
  /\ \E k \in 1..Len(results) : \A rule \in Rules : k \in Matching(rule)
  /\ Len(report[1].recommendations) = 4
  /\ \E i, j \in 1..4 :
       report[1].recommendations[i].count > report[1].recommendations[j].count

----------------------------------------------------------------------------
(* C8 *)

\* the rate the claim names for an instance type, in 1/10000 dollar
ClaimedRate(instanceType) ==
  CASE instanceType = "t3.medium" -> 416
    [] instanceType = "t3.large" -> 832
    [] instanceType = "t3.xlarge" -> 1664
    [] OTHER -> 416

\* x/10000 dollar rounded to the nearest cent
NearestCent(x) == IF x >= 0 THEN (x + 50) \div 100 ELSE 0 - ((50 - x) \div 100)

ClaimedCost(runner, m) ==
  NearestCent(m.uptime * ClaimedRate(NamedInstanceType(runner))
              + Len(m.environments) * 1000 * m.uptime)

\* C8: a runner that is not RUNNER_KIND_LOCAL costs
\* uptime * hourlyRate + environments * 0.1 * uptime rounded to cents, the
\* rate being the table rate of the instance type in its system details
\* and 0.0416 when that is missing or not in the table.
C8_MeteredCostFormula ==
  \A k \in 1..Len(results) :
    (Settled(k) /\ runners[k].kind # "RUNNER_KIND_LOCAL")
      => results[k][1].estimatedCost = ClaimedCost(runners[k], results[k][1])

----------------------------------------------------------------------------
(* C9 *)

ReportedRegion(runner) ==
  IF runner.status = None THEN "" ELSE runner.status[1].region

DesiredRegion(runner) ==
  IF runner.spec = None \/ runner.spec[1].configuration = None THEN ""
  ELSE runner.spec[1].configuration[1].region

\* C9: the resolved region is the status region when there is one,
\* otherwise the configured region when there is one, otherwise
\* "unknown"; the status region wins when both are present.
C9_RegionPrecedence ==
  \A k \in 1..Len(results) :
    Settled(k) =>
      results[k][1].region =
        IF ReportedRegion(runners[k]) # "" THEN ReportedRegion(runners[k])
        ELSE IF DesiredRegion(runners[k]) # "" THEN DesiredRegion(runners[k])
        ELSE "unknown"

\* both regions present and different
C9_Witness ==
  \E k \in 1..Len(results) :
    /\ Settled(k)
    /\ ReportedRegion(runners[k]) = "us-east"
    /\ DesiredRegion(runners[k]) = "eu-west"
    /\ results[k][1].region = "us-east"

----------------------------------------------------------------------------
(* C10 *)

\* C10: whatever order the derivations complete in, the report builder
\* gets one record per runner in the order of the ListRunners result, and
\* the Runner Details table has one row per runner in that order.
C10_RunnerOrderKept ==
  ReportBuilt =>
    /\ Len(results) = Len(runners)
    /\ Len(report[1].details) = Len(runners)
    /\ \A k \in 1..Len(runners) :
         /\ Settled(k)
         /\ results[k][1].runnerId = runners[k].runner_id
         /\ results[k][1].kind = runners[k].kind
         /\ results[k][1].phase =
              (IF runners[k].status = None THEN "unknown"
               ELSE runners[k].status[1].phase)
         /\ report[1].details[k].name = results[k][1].name
         /\ report[1].details[k].kind = runners[k].kind
         /\ report[1].details[k].phase = results[k][1].phase
         /\ report[1].details[k].uptime = results[k][1].uptime
         /\ report[1].system[k].runnerId = runners[k].runner_id

\* two different runners, the second one's derivation completed first
C10_Witness ==
  /\ ReportBuilt
  /\ Len(runners) = MaxRunners
  /\ runners[1].runner_id # runners[Len(runners)].runner_id
  /\ runners[1].kind # runners[Len(runners)].kind
  /\ reordered

====
